---------------------------- MODULE Spec2Model ----------------------------
(***************************************************************************)
(* Pitch-frame-to-note segmentation (detectNotesFromPitch) and scale       *)
(* quantisation (snapMidiToScale) of src/lib/note-detection.ts.            *)
(*                                                                         *)
(* Number representation.  The source computes on IEEE doubles; the model  *)
(* computes exactly on scaled integers:                                    *)
(*   time        in units of 1/TimeScale second (5 ms); frame times are    *)
(*               even, so every median of two deltas is a whole unit;      *)
(*   pitch       "float" MIDI values in units of 1/MidiScale semitone,     *)
(*               the table of hzToMidiFloat holding even values; values    *)
(*               produced by Math.round are whole semitones;               *)
(*   confidence  in units of 1/ConfScale; a mean is a reduced fraction.    *)
(* stddev(v) > b is decided exactly on the squared quantities.             *)
(***************************************************************************)
EXTENDS Integers, Sequences, FiniteSets, TLC

VARIABLES
    frames,     \* PitchFrame[] handed to detectNotesFromPitch
    calls,      \* the invocations of detectNotesFromPitch so far, in order
    key,        \* Key given to snapMidiToScale
    snaps,      \* a pitch followed by the results of snapping it repeatedly
    detected,   \* DetectedNote[] handed to detectedNotesToNoteSegments
    adapted,    \* the invocations of detectedNotesToNoteSegments so far
    graph,      \* +page.svelte: ctx, workletNode and the ensureAudioGraph calls
    playback,   \* +page.svelte: sourceNode and the audio sources created
    page,       \* +page.svelte: the loaded file, the note track, the render
    editor      \* NoteEditor.svelte: the track, the tool, the drag in progress

coreVars == <<frames, calls, key, snaps, detected, adapted>>

uiVars == <<graph, playback, page, editor>>

vars == <<frames, calls, key, snaps, detected, adapted, graph, playback,
          page, editor>>

---------------------------------------------------------------------------
(* Scales and bounds *)

TimeScale == 200
MidiScale == 20
ConfScale == 10

MaxFrames == 3
MaxCalls == 2
NumIds == 2
MaxSnaps == 2
MaxScaleSize == 2
MaxDetected == 3
MaxRun == 3
MaxPause == 5
MaxGraphCalls == 3
MaxSources == 3
MaxPending == 2
EditorDuration == 7
MaxEditorNotes == 2
BeatUnits == 2
PitchLo == 52
PitchHi == 75

---------------------------------------------------------------------------
(* Generic helpers standing for the JavaScript built-ins the source uses *)

Abs(x) == IF x < 0 THEN 0 - x ELSE x

\* JavaScript's %: the remainder takes the sign of the dividend.
JsRem(a, n) == IF a >= 0 THEN a % n ELSE 0 - ((0 - a) % n)

\* Math.round of x/unit: the nearest integer, a tie going up.
MathRound(x, unit) == (2 * x + unit) \div (2 * unit)

RECURSIVE Gcd(_, _)
Gcd(a, b) == IF b = 0 THEN a ELSE Gcd(b, a % b)

RECURSIVE Sum(_)
Sum(s) == IF Len(s) = 0 THEN 0 ELSE s[1] + Sum(Tail(s))

SeqMap(Op(_), s) == [i \in 1..Len(s) |-> Op(s[i])]

RECURSIVE SeqFilter(_, _)
SeqFilter(Test(_), s) ==
    IF Len(s) = 0 THEN <<>>
    ELSE IF Test(s[1]) THEN <<s[1]>> \o SeqFilter(Test, Tail(s))
    ELSE SeqFilter(Test, Tail(s))

\* Array.prototype.sort with a numeric comparator: a stable insertion of
\* each element after the last one that is not greater.
RECURSIVE InsertBy(_, _, _)
InsertBy(Val(_), x, s) ==
    IF Len(s) = 0 THEN <<x>>
    ELSE IF Val(x) < Val(s[1]) THEN <<x>> \o s
    ELSE <<s[1]>> \o InsertBy(Val, x, Tail(s))

RECURSIVE SortBy(_, _)
SortBy(Val(_), s) ==
    IF Len(s) = 0 THEN <<>>
    ELSE InsertBy(Val, s[Len(s)], SortBy(Val, SubSeq(s, 1, Len(s) - 1)))

Identity(x) == x

---------------------------------------------------------------------------
(* note-detection.ts: configuration *)

Knobs == {"minFrameConfidence", "maxGapSec", "maxJumpSemitones",
          "maxStdDevSemitones", "minNoteSec", "minFramesPerNote"}

\* Mutant: minNoteSec mistyped as 0.006 s.
NOTE_DETECTION_DEFAULTS_shortMinNote ==
    [minFrameConfidence |-> 3,
     maxGapSec          |-> 10,
     maxJumpSemitones   |-> 24,
     maxStdDevSemitones |-> 12,
     minNoteSec         |-> 1,
     minFramesPerNote   |-> 3]

\* 0.3, 0.05 s, 1.2 st, 0.6 st, 0.06 s, 3 frames in the model's units.
NOTE_DETECTION_DEFAULTS ==
    [minFrameConfidence |-> 3,
     maxGapSec          |-> 10,
     maxJumpSemitones   |-> 24,
     maxStdDevSemitones |-> 12,
     minNoteSec         |-> 12,
     minFramesPerNote   |-> 3]

\* { ...NOTE_DETECTION_DEFAULTS, ...(config ?? {}) }
MergeConfig(config) ==
    [k \in Knobs |-> IF k \in DOMAIN config THEN config[k]
                     ELSE NOTE_DETECTION_DEFAULTS[k]]

---------------------------------------------------------------------------
(* note-detection.ts: numeric helpers *)

\* 69 + 12*log2(hz/440), tabulated for the frequencies the model draws
\* (C4, C#4, D4), to the nearest tenth of a semitone.
hzToMidiFloat(hz) ==
    CASE hz = 262 -> 60 * MidiScale
      [] hz = 277 -> 61 * MidiScale
      [] hz = 294 -> 62 * MidiScale

\* median of a non-empty list (the callers never pass an empty one); the
\* mean of the two middle values is exact on the model's even grid.
median(values) ==
    LET xs  == SortBy(Identity, values)
        mid == Len(xs) \div 2
    IN  IF Len(xs) % 2 = 1 THEN xs[mid + 1]
        ELSE (xs[mid] + xs[mid + 1]) \div 2

\* mean of a non-empty list, as the reduced fraction num/den.
mean(values) ==
    LET s == Sum(values)
        n == Len(values)
        g == Gcd(Abs(s), n)
    IN  [num |-> s \div g, den |-> n \div g]

\* Math.max(0, Math.min(1, q)) on a fraction of ConfScale units.
Clamp01(q) ==
    IF q.num < 0 THEN [num |-> 0, den |-> 1]
    ELSE IF q.num > ConfScale * q.den THEN [num |-> ConfScale, den |-> 1]
    ELSE q

\* stddev(values) > bound, with stddev the square root of the (n-1)-divisor
\* variance and 0 for at most one value:
\*   sqrt(S/(n-1)) > b  <=>  b < 0  \/  n*S > b*b*n*(n-1),
\* where n*S = n*sum(x^2) - (sum x)^2.
stddevExceeds(values, bound) ==
    LET n  == Len(values)
        sq == Sum([i \in 1..n |-> values[i] * values[i]])
        s  == Sum(values)
    IN  IF n <= 1 THEN 0 > bound
        ELSE bound < 0 \/ n * sq - s * s > bound * bound * n * (n - 1)

IsPositive(d) == d > 0

\* Mutant: zero deltas (duplicated timestamps) kept in the median.
inferHopSec_keepZeroDeltas(times) ==
    IF Len(times) <= 2 THEN TimeScale \div 100
    ELSE median([i \in 1..(Len(times) - 1) |-> times[i + 1] - times[i]])

\* Mutant: the default returned for up to three timestamps (fewer than
\* three deltas) instead of up to two.
inferHopSec_defaultBelowThreeDeltas(times) ==
    IF Len(times) <= 3 THEN TimeScale \div 100
    ELSE LET all    == [i \in 1..(Len(times) - 1) |-> times[i + 1] - times[i]]
             deltas == SeqFilter(IsPositive, all)
         IN  IF Len(deltas) = 0 THEN TimeScale \div 100
             ELSE median(deltas)

inferHopSec(times) ==
    IF Len(times) <= 2 THEN TimeScale \div 100
    ELSE LET all    == [i \in 1..(Len(times) - 1) |-> times[i + 1] - times[i]]
             deltas == SeqFilter(IsPositive, all)
         IN  IF Len(deltas) = 0 THEN TimeScale \div 100
             ELSE median(deltas)

---------------------------------------------------------------------------
(* note-detection.ts: detectNotesFromPitch *)

FrameTime(f) == f.time
FrameMidi(f) == f.midi
FrameConfidence(f) == f.confidence

\* Mutant: the confidence comparison turned round.
IsVoiced_inverted(f, cfg) ==
    /\ f.f0.kind # "null"
    /\ f.f0.kind = "finite"
    /\ f.confidence <= cfg.minFrameConfidence

\* Mutant: a confidence equal to the threshold rejected.
IsVoiced_strictConfidence(f, cfg) ==
    /\ f.f0.kind # "null"
    /\ f.f0.kind = "finite"
    /\ f.confidence > cfg.minFrameConfidence

\* f.f0 != null && Number.isFinite(f.f0) && f.confidence >= threshold
IsVoiced(f, cfg) ==
    /\ f.f0.kind # "null"
    /\ f.f0.kind = "finite"
    /\ f.confidence >= cfg.minFrameConfidence

\* lines 63-66: filter, map to {time, midi, confidence}, sort by time.
VoicedFrames(fs, cfg) ==
    LET Keep(f) == IsVoiced(f, cfg)
        ToV(f)  == [time |-> f.time, midi |-> hzToMidiFloat(f.f0.hz),
                    confidence |-> f.confidence]
    IN  SortBy(FrameTime, SeqMap(ToV, SeqFilter(Keep, fs)))

\* Mutant: a closed cluster put in front of the clusters closed before it.
flush_prepends(cur, clusters) ==
    IF Len(cur) = 0 THEN clusters ELSE <<cur>> \o clusters

\* flush(): the clusters after closing cur.
flush(cur, clusters) ==
    IF Len(cur) = 0 THEN clusters ELSE Append(clusters, cur)

\* Mutant: the gap test of lines 89-95 left out.
RECURSIVE clusterFrom_noGapCheck(_, _, _, _, _)
clusterFrom_noGapCheck(voiced, cfg, i, cur, clusters) ==
    IF i > Len(voiced) THEN flush(cur, clusters)
    ELSE
      LET f == voiced[i] IN
      IF Len(cur) = 0
        THEN clusterFrom_noGapCheck(voiced, cfg, i + 1, <<f>>, clusters)
      ELSE
        LET prev      == cur[Len(cur)]
            jump      == Abs(f.midi - prev.midi)
            candidate == Append(cur, f)
        IN  IF \/ jump > cfg.maxJumpSemitones
               \/ stddevExceeds(SeqMap(FrameMidi, candidate),
                                cfg.maxStdDevSemitones)
              THEN clusterFrom_noGapCheck(voiced, cfg, i + 1, <<f>>,
                                          flush(cur, clusters))
            ELSE clusterFrom_noGapCheck(voiced, cfg, i + 1, candidate,
                                        clusters)

\* Mutant: the standard-deviation test of lines 104-111 left out.
RECURSIVE clusterFrom_noStdDevCheck(_, _, _, _, _)
clusterFrom_noStdDevCheck(voiced, cfg, i, cur, clusters) ==
    IF i > Len(voiced) THEN flush(cur, clusters)
    ELSE
      LET f == voiced[i] IN
      IF Len(cur) = 0
        THEN clusterFrom_noStdDevCheck(voiced, cfg, i + 1, <<f>>, clusters)
      ELSE
        LET prev == cur[Len(cur)]
            gap  == f.time - prev.time
            jump == Abs(f.midi - prev.midi)
        IN  IF gap > cfg.maxGapSec \/ jump > cfg.maxJumpSemitones
              THEN clusterFrom_noStdDevCheck(voiced, cfg, i + 1, <<f>>,
                                             flush(cur, clusters))
            ELSE clusterFrom_noStdDevCheck(voiced, cfg, i + 1,
                                           Append(cur, f), clusters)

\* Mutant: the jump test splitting at every change of pitch.
RECURSIVE clusterFrom_splitsOnAnyJump(_, _, _, _, _)
clusterFrom_splitsOnAnyJump(voiced, cfg, i, cur, clusters) ==
    IF i > Len(voiced) THEN flush(cur, clusters)
    ELSE
      LET f == voiced[i] IN
      IF Len(cur) = 0
        THEN clusterFrom_splitsOnAnyJump(voiced, cfg, i + 1, <<f>>, clusters)
      ELSE
        LET prev      == cur[Len(cur)]
            gap       == f.time - prev.time
            jump      == Abs(f.midi - prev.midi)
            candidate == Append(cur, f)
        IN  IF \/ gap > cfg.maxGapSec
               \/ jump > 0
               \/ stddevExceeds(SeqMap(FrameMidi, candidate),
                                cfg.maxStdDevSemitones)
              THEN clusterFrom_splitsOnAnyJump(voiced, cfg, i + 1, <<f>>,
                                               flush(cur, clusters))
            ELSE clusterFrom_splitsOnAnyJump(voiced, cfg, i + 1, candidate,
                                             clusters)

\* Mutant: the final flush() of line 115 left out.
RECURSIVE clusterFrom_noFinalFlush(_, _, _, _, _)
clusterFrom_noFinalFlush(voiced, cfg, i, cur, clusters) ==
    IF i > Len(voiced) THEN clusters
    ELSE
      LET f == voiced[i] IN
      IF Len(cur) = 0
        THEN clusterFrom_noFinalFlush(voiced, cfg, i + 1, <<f>>, clusters)
      ELSE
        LET prev      == cur[Len(cur)]
            gap       == f.time - prev.time
            jump      == Abs(f.midi - prev.midi)
            candidate == Append(cur, f)
        IN  IF \/ gap > cfg.maxGapSec
               \/ jump > cfg.maxJumpSemitones
               \/ stddevExceeds(SeqMap(FrameMidi, candidate),
                                cfg.maxStdDevSemitones)
              THEN clusterFrom_noFinalFlush(voiced, cfg, i + 1, <<f>>,
                                            flush(cur, clusters))
            ELSE clusterFrom_noFinalFlush(voiced, cfg, i + 1, candidate,
                                          clusters)

\* The loop of lines 82-114 from index i on, then the final flush().
RECURSIVE clusterFrom(_, _, _, _, _)
clusterFrom(voiced, cfg, i, cur, clusters) ==
    IF i > Len(voiced) THEN flush(cur, clusters)
    ELSE
      LET f == voiced[i] IN
      IF Len(cur) = 0 THEN clusterFrom(voiced, cfg, i + 1, <<f>>, clusters)
      ELSE
        LET prev      == cur[Len(cur)]
            gap       == f.time - prev.time
            jump      == Abs(f.midi - prev.midi)
            candidate == Append(cur, f)
        IN  IF gap > cfg.maxGapSec
              THEN clusterFrom(voiced, cfg, i + 1, <<f>>, flush(cur, clusters))
            ELSE IF jump > cfg.maxJumpSemitones
              THEN clusterFrom(voiced, cfg, i + 1, <<f>>, flush(cur, clusters))
            ELSE IF stddevExceeds(SeqMap(FrameMidi, candidate),
                                  cfg.maxStdDevSemitones)
              THEN clusterFrom(voiced, cfg, i + 1, <<f>>, flush(cur, clusters))
            ELSE clusterFrom(voiced, cfg, i + 1, candidate, clusters)

Clusters(fs, cfg) == clusterFrom(VoicedFrames(fs, cfg), cfg, 1, <<>>, <<>>)

HopSec(fs, cfg) == inferHopSec(SeqMap(FrameTime, VoicedFrames(fs, cfg)))

\* Mutant: the frame-count comparison turned round.
ClusterSurvives_invertedCount(cl, hopSec, cfg) ==
    /\ ~(Len(cl) > cfg.minFramesPerNote)
    /\ ~(cl[Len(cl)].time + hopSec - cl[1].time < cfg.minNoteSec)

\* Mutant: the frame-count floor left out.
ClusterSurvives_noCountFloor(cl, hopSec, cfg) ==
    ~(cl[Len(cl)].time + hopSec - cl[1].time < cfg.minNoteSec)

\* Mutant: the duration floor left out.
ClusterSurvives_noDurationFloor(cl, hopSec, cfg) ==
    ~(Len(cl) < cfg.minFramesPerNote)

\* lines 119-123: the two floors a cluster must pass.
ClusterSurvives(cl, hopSec, cfg) ==
    /\ ~(Len(cl) < cfg.minFramesPerNote)
    /\ ~(cl[Len(cl)].time + hopSec - cl[1].time < cfg.minNoteSec)

\* Mutant: the hop not added to the last frame time.
NoteOfCluster_noHop(cl, hopSec, id) ==
    [id         |-> id,
     startTime  |-> cl[1].time,
     endTime    |-> cl[Len(cl)].time,
     midi       |-> MathRound(median(SeqMap(FrameMidi, cl)), MidiScale),
     confidence |-> Clamp01(mean(SeqMap(FrameConfidence, cl)))]

\* Mutant: the pitch taken from the cluster's last frame.
NoteOfCluster_lastFramePitch(cl, hopSec, id) ==
    [id         |-> id,
     startTime  |-> cl[1].time,
     endTime    |-> cl[Len(cl)].time + hopSec,
     midi       |-> MathRound(cl[Len(cl)].midi, MidiScale),
     confidence |-> Clamp01(mean(SeqMap(FrameConfidence, cl)))]

\* lines 120-134: the note of a surviving cluster, given its random id.
NoteOfCluster(cl, hopSec, id) ==
    [id         |-> id,
     startTime  |-> cl[1].time,
     endTime    |-> cl[Len(cl)].time + hopSec,
     midi       |-> MathRound(median(SeqMap(FrameMidi, cl)), MidiScale),
     confidence |-> Clamp01(mean(SeqMap(FrameConfidence, cl)))]

SurvivingClusters(fs, cfg) ==
    LET hop == HopSec(fs, cfg)
        Ok(cl) == ClusterSurvives(cl, hop, cfg)
    IN  SeqFilter(Ok, Clusters(fs, cfg))

\* detectNotesFromPitch(frames, config), uuids[k] being the value that
\* crypto.randomUUID() returns for the k-th note pushed.
detectNotesFromPitch(fs, config, uuids) ==
    LET cfg == MergeConfig(config)
        hop == HopSec(fs, cfg)
        cls == SurvivingClusters(fs, cfg)
    IN  IF Len(VoicedFrames(fs, cfg)) = 0 THEN <<>>
        ELSE [k \in 1..Len(cls) |-> NoteOfCluster(cls[k], hop, uuids[k])]

---------------------------------------------------------------------------
(* note-detection.ts: keys and snapMidiToScale *)

SCALES ==
    [major |-> {0, 2, 4, 5, 7, 9, 11},
     minor |-> {0, 2, 3, 5, 7, 8, 10}]

ScaleNames == {"major", "minor"}

makeKey(rootPitchClass, scale, rootOctaveMidi) ==
    LET pc == JsRem(JsRem(rootPitchClass, 12) + 12, 12)
    IN  [rootMidi |-> rootOctaveMidi + pc, scaleSteps |-> SCALES[scale]]

\* Mutant: the pitch class taken from the pitch alone, not relative to
\* the key root.
inScale_ignoresRoot(midi, k) ==
    JsRem(JsRem(midi, 12) + 12, 12) \in k.scaleSteps

inScale(midi, k) ==
    LET pc == JsRem(JsRem(midi - k.rootMidi, 12) + 12, 12)
    IN  pc \in k.scaleSteps

\* Mutant: the tone above tested before the tone below.
RECURSIVE snapSearch_upFirst(_, _, _)
snapSearch_upFirst(m, k, d) ==
    IF d > 6 THEN m
    ELSE IF inScale(m + d, k) THEN m + d
    ELSE IF inScale(m - d, k) THEN m - d
    ELSE snapSearch_upFirst(m, k, d + 1)

\* Mutant: best overwritten at every radius, so an exhausted search
\* returns the last tone tried instead of m.
RECURSIVE snapSearch_lastTried(_, _, _)
snapSearch_lastTried(m, k, d) ==
    IF d > 6 THEN m - 6
    ELSE IF inScale(m - d, k) THEN m - d
    ELSE IF inScale(m + d, k) THEN m + d
    ELSE snapSearch_lastTried(m, k, d + 1)

\* The loop of lines 179-192 from radius d on, and the return of line 193:
\* the first match, the tone below tested before the tone above, or m when
\* the loop ends with bestDist still infinite.
RECURSIVE snapSearch(_, _, _)
snapSearch(m, k, d) ==
    IF d > 6 THEN m
    ELSE IF inScale(m - d, k) THEN m - d
    ELSE IF inScale(m + d, k) THEN m + d
    ELSE snapSearch(m, k, d + 1)

\* Mutant: the early return for a pitch already in scale left out.
snapMidiToScale_noEarlyReturn(midi, k) ==
    snapSearch(MathRound(midi, MidiScale), k, 1)

\* snapMidiToScale(midi, key) for a finite midi, given in 1/MidiScale
\* semitone; the result is a whole semitone.
snapMidiToScale(midi, k) ==
    LET m == MathRound(midi, MidiScale)
    IN  IF inScale(m, k) THEN m ELSE snapSearch(m, k, 1)

---------------------------------------------------------------------------
(* note-model.ts and note-detection.ts: the adapter to note segments *)

\* init.field ?? default
OrElse(init, field, default) ==
    IF field \in DOMAIN init THEN init[field] ELSE default

\* createNoteSegment(init) for an init that carries an id (the adapter
\* always passes one, so uuidv4() is not drawn): the object literal of the
\* return statement, which copies the twelve NoteSegment fields and no
\* other property of init.
createNoteSegment(init) ==
    [id                |-> init.id,
     startTime         |-> init.startTime,
     endTime           |-> init.endTime,
     baseSemitone      |-> init.baseSemitone,
     pitchOffset       |-> OrElse(init, "pitchOffset", 0),
     enabled           |-> OrElse(init, "enabled", TRUE),
     pitchCenterOffset |-> OrElse(init, "pitchCenterOffset", 0),
     pitchModAmount    |-> OrElse(init, "pitchModAmount", 1),
     pitchDriftAmount  |-> OrElse(init, "pitchDriftAmount", 1),
     timeStretchStart  |-> OrElse(init, "timeStretchStart", 1),
     timeStretchEnd    |-> OrElse(init, "timeStretchEnd", 1),
     formantShift      |-> OrElse(init, "formantShift", 0)]

HasDuration(n) == n.endTime > n.startTime

SegmentStart(sg) == sg.startTime

\* The init object the adapter builds for the note n; keyGiven tells
\* whether the optional key argument was passed.
SegmentInit(n, k, keyGiven) ==
    LET snapped == IF keyGiven THEN snapMidiToScale(n.midi * MidiScale, k)
                   ELSE n.midi
    IN  [id                |-> n.id,
         startTime         |-> n.startTime,
         endTime           |-> n.endTime,
         baseSemitone      |-> n.midi,
         pitchOffset       |-> 0,
         pitchCenterOffset |-> 0,
         pitchModAmount    |-> 1,
         pitchDriftAmount  |-> 1,
         timeStretchStart  |-> 1,
         timeStretchEnd    |-> 1,
         formantShift      |-> 0,
         enabled           |-> TRUE,
         snappedSemitone   |-> snapped]

\* Mutant: the filter keeps notes whose endTime equals their startTime.
detectedNotesToNoteSegments_keepsEmptyNotes(notes, k, keyGiven) ==
    LET Keep(n)  == n.endTime >= n.startTime
        ToSeg(n) == createNoteSegment(SegmentInit(n, k, keyGiven))
    IN  SortBy(SegmentStart, SeqMap(ToSeg, SeqFilter(Keep, notes)))

\* detectedNotesToNoteSegments(detected, key?): filter, map, sort.
detectedNotesToNoteSegments(notes, k, keyGiven) ==
    LET ToSeg(n) == createNoteSegment(SegmentInit(n, k, keyGiven))
    IN  SortBy(SegmentStart, SeqMap(ToSeg, SeqFilter(HasDuration, notes)))

---------------------------------------------------------------------------
(* Inputs *)

\* Gaps between consecutive frame times: a duplicated timestamp, 10 ms and
\* 30 ms (two of which exceed the default maxGapSec).
TimeDeltas == {0, 2, 6}

\* What the estimator reports for a frame: unvoiced (f0 null), a
\* non-finite f0, and C4, C#4 or D4 at a confidence that passes both
\* thresholds the configurations use (0.9, which equals the higher one)
\* or only the lower one (0.5, 0.8).
Observations ==
    {[f0 |-> [kind |-> "null", hz |-> 0], confidence |-> 0],
     [f0 |-> [kind |-> "nan", hz |-> 0], confidence |-> 9],
     [f0 |-> [kind |-> "finite", hz |-> 262], confidence |-> 9],
     [f0 |-> [kind |-> "finite", hz |-> 262], confidence |-> 5],
     [f0 |-> [kind |-> "finite", hz |-> 277], confidence |-> 9],
     [f0 |-> [kind |-> "finite", hz |-> 294], confidence |-> 8]}

\* Partial<NoteDetectionConfig>: each knob absent or overridden.
ConfigOverrides ==
    [minFrameConfidence : {9}, minFramesPerNote : {1}, minNoteSec : {0}]

Configs ==
    {[k \in D |-> c[k]] : c \in ConfigOverrides,
                          D \in SUBSET {"minFrameConfidence",
                                        "minFramesPerNote", "minNoteSec"}}

\* Observations with a finite f0.
PitchedObservations == {o \in Observations : o.f0.kind = "finite"}

\* A recording at a uniform hop: nA frames reporting v, then g frames
\* reporting u, then nB frames reporting v again.
ScenarioFrames(nA, g, nB, h, v, u) ==
    [k \in 1..(nA + g + nB) |->
        LET o == IF k <= nA \/ k > nA + g THEN v ELSE u
        IN  [time |-> (k - 1) * h, f0 |-> o.f0, confidence |-> o.confidence]]

ScenarioInputs ==
    {ScenarioFrames(nA, g, nB, h, v, u) :
        nA \in 1..MaxRun, g \in 0..MaxPause, nB \in 0..MaxRun,
        h \in TimeDeltas \ {0}, v \in PitchedObservations,
        u \in Observations}

\* Partial configurations holding one out-of-range (negative) value.
OutOfRangeConfigs == {[k \in {knob} |-> 0 - 1] : knob \in Knobs}

NoteIds == 1..NumIds

\* Keys: the shipped ones the page builds with makeKey(keyRootPc, scaleName,
\* 60), and custom keys with few scale degrees (the empty set included).
ShippedKeys == {makeKey(r, sc, 60) : r \in 0..11, sc \in ScaleNames}

CustomKeys ==
    {[rootMidi |-> 60, scaleSteps |-> S] :
        S \in {T \in SUBSET (0..11) : Cardinality(T) <= MaxScaleSize}}

Keys == ShippedKeys \cup CustomKeys

\* DetectedNote values given to the adapter: C#4 and F#4 (neither in C
\* major), with endTime after, equal to or before startTime.
DetectedNotes ==
    [id : NoteIds, startTime : {2, 4}, endTime : {2, 6}, midi : {61, 66},
     confidence : {[num |-> 9, den |-> 1]}]

RECURSIVE ListsUpTo(_, _)
ListsUpTo(S, n) ==
    IF n = 0 THEN {<<>>}
    ELSE LET shorter == ListsUpTo(S, n - 1)
         IN  shorter \cup {Append(l, x) : l \in shorter, x \in S}

\* The adapter is exported and takes any DetectedNote[]: the lists the
\* detector returns and unordered or degenerate ones alike.
DetectedLists == ListsUpTo(DetectedNotes, MaxDetected)

\* Keys the page passes to the adapter.
AdaptKeys == {makeKey(r, sc, 60) : r \in {0, 7}, sc \in ScaleNames}

\* Pitches given to snapMidiToScale: whole semitones, and the values half
\* a semitone above them, which Math.round moves up.
SnapInputs ==
    {p * MidiScale : p \in PitchLo..PitchHi}
    \cup {p * MidiScale + MidiScale \div 2 : p \in PitchLo..PitchHi}


---------------------------------------------------------------------------
(* routes/+page.svelte: the audio graph and the playback source *)

\* The calls of ensureAudioGraph() the page makes (mount, file pick, play,
\* render) and the audio sources it creates.
GraphCalls == 1..MaxGraphCalls

Sources == 1..MaxSources

\* let ctx = null, workletNode = null: no context and no node exist and no
\* call of ensureAudioGraph has begun.  Contexts are numbered in the order
\* of their creation; nodes[i] tells on which context the i-th worklet node
\* was created and on which context its creator awaited addModule.
GraphAtLoad ==
    [ctx         |-> 0,
     workletNode |-> 0,
     contexts    |-> 0,
     loaded      |-> {},
     nodes       |-> <<>>,
     pc          |-> [c \in GraphCalls |-> "idle"],
     own         |-> [c \in GraphCalls |-> 0]]

\* let sourceNode = null: no source exists and no play request is in
\* flight.  A source is "unborn", "playing", "ended" (playback over, its
\* 'ended' event queued) or "done" (the event delivered).
PlaybackIdle ==
    [sourceNode |-> 0,
     created    |-> 0,
     state      |-> [s \in Sources |-> "unborn"],
     connected  |-> [s \in Sources |-> "none"],
     awaiting   |-> [play |-> 0, playRendered |-> 0]]

\* A value that may be null is a list of at most one element.
Null == <<>>

Some(v) == <<v>>

\* The decoded files the user may load, and the two values a harmonic
\* setting or a formant shift takes here (as loaded, edited).
Buffers == {1, 2}

Settings == {0, 1}

\* The page's state before a file is loaded; detecting and rendering count
\* the calls of autoDetectNotes and renderWithNotes that are at an await.
PageAtLoad ==
    [loadedBuffer              |-> 0,
     renderedBuffer            |-> Null,
     noteTrack                 |-> Null,
     selectedNoteIds           |-> <<>>,
     lastAutoDetectedNoteCount |-> Null,
     harmonics                 |-> 0,
     detecting                 |-> 0,
     rendering                 |-> 0]

\* The note editor as mounted on a track: the select tool, snapping on,
\* no drag.  Editor times are in units of 1/TimeScale second; the pitch
\* fields of a note are left out, no time being computed from them.
EditorOn(duration, notes) ==
    [duration        |-> duration,
     notes           |-> notes,
     selectedNoteIds |-> <<>>,
     tool            |-> "select",
     snapEnabled     |-> TRUE,
     drag            |-> Null]

UiAtLoad ==
    /\ graph = GraphAtLoad
    /\ playback = PlaybackIdle
    /\ page = PageAtLoad
    /\ editor = EditorOn(EditorDuration, <<>>)

\* ensureNoteTrackFromBuffer(buf): the buffer's rate and duration, no notes.
ensureNoteTrackFromBuffer(buf) == [buffer |-> buf, notes |-> <<>>]

\* The note lists a detection run or the note editor may deliver: notes
\* with distinct ids, neutral pitch offset and formant shift.
RECURSIVE NotesWithIdsFrom(_)
NotesWithIdsFrom(i) ==
    IF i > NumIds THEN {<<>>}
    ELSE LET rest == NotesWithIdsFrom(i + 1) IN
         rest \cup {<<[id |-> i, pitchOffset |-> 0, formantShift |-> 0]>>
                       \o ns : ns \in rest}

PageNoteLists == NotesWithIdsFrom(1)

\* makePresetNotes(duration): two notes, the first raised and the second
\* lowered by three semitones, under the ids uuidv4() returns.
makePresetNotes(i, j) ==
    <<[id |-> i, pitchOffset |-> 3, formantShift |-> 0],
      [id |-> j, pitchOffset |-> 0 - 3, formantShift |-> 0]>>

\* notes[0]?.id ? [notes[0].id] : []
FirstId(notes) == IF notes = <<>> THEN <<>> ELSE <<notes[1].id>>

\* { ...noteTrack, notes }
WithNotes(track, notes) ==
    IF track = Null THEN Some([buffer |-> 0, notes |-> notes])
    ELSE Some([track[1] EXCEPT !.notes = notes])

\* What renderWithNotes reads after its last await and renders from.
RenderInputs(p) ==
    [buffer    |-> p.loadedBuffer,
     notes     |-> IF p.noteTrack = Null THEN <<>> ELSE p.noteTrack[1].notes,
     harmonics |-> p.harmonics]

\* stop(): the current source, if any, is stopped (which queues its
\* 'ended' event unless playback was over already) and disconnected, and
\* sourceNode is cleared.
stop(p) ==
    IF p.sourceNode = 0 THEN p
    ELSE [p EXCEPT !.state[p.sourceNode] =
                       IF @ = "playing" THEN "ended" ELSE @,
                   !.connected[p.sourceNode] = "none",
                   !.sourceNode = 0]

\* The handler both play() and playRendered() install on the source they
\* start: () => { sourceNode?.disconnect(); sourceNode = null; }.  It
\* names the page's variable sourceNode, not the source it is installed on.
onended(p) ==
    IF p.sourceNode = 0 THEN p
    ELSE [p EXCEPT !.connected[p.sourceNode] = "none",
                   !.sourceNode = 0]

\* The tail of play() and playRendered() after their awaits: stop(), a new
\* AudioBufferSourceNode, connect(target), start(), onended installed.
startSource(p, target) ==
    LET q == stop(p)
        s == p.created + 1
    IN  [q EXCEPT !.created = s,
                  !.state[s] = "playing",
                  !.connected[s] = target,
                  !.sourceNode = s]

---------------------------------------------------------------------------
(* components/NoteEditor.svelte and editor/coords.ts: the pointer drags *)

\* const MIN_NOTE_SEC = 0.02, in units of 1/TimeScale second.
MIN_NOTE_SEC == 4

MathMax(a, b) == IF a >= b THEN a ELSE b

MathMin(a, b) == IF a <= b THEN a ELSE b

\* Mutant: the upper limit ignored.
clamp_ignoresMax(v, min, max) == MathMax(min, v)

\* clamp(v, min, max) for a finite v.
clamp(v, min, max) == MathMax(min, MathMin(max, v))

\* snapTime(time, bpm, enabled) for a positive finite bpm, step being the
\* beat 60/bpm: the nearest whole number of beats.
snapTime(time, step, enabled) ==
    IF enabled THEN MathRound(time, step) * step ELSE time

NoteStart(n) == n.startTime

\* The notes whose times meet the editor's three conditions on a track of
\* the given duration, and the tracks of such notes, sorted by start.
EditorNotes(duration) ==
    {n \in [id : {0}, startTime : 0..duration, endTime : 0..duration] :
        n.endTime - n.startTime >= MIN_NOTE_SEC}

RECURSIVE EditorTracksOf(_, _)
EditorTracksOf(duration, len) ==
    IF len = 0 THEN {<<>>}
    ELSE LET shorter == EditorTracksOf(duration, len - 1) IN
         shorter \cup
         {Append(ns, [n EXCEPT !.id = Len(ns) + 1]) :
            ns \in {m \in shorter : Len(m) = len - 1},
            n \in EditorNotes(duration)}

EditorTracks ==
    {ns \in EditorTracksOf(EditorDuration, MaxEditorNotes - 1) :
        \A k \in 1..(Len(ns) - 1) : ns[k].startTime <= ns[k + 1].startTime}

\* What hitTest may return for a pointer at time x: nothing, or a note
\* that spans x and one of its three parts.
Hits(e, x) ==
    {[id |-> 0, part |-> "none"]} \cup
    {[id |-> e.notes[k].id, part |-> part] :
        k \in {j \in 1..Len(e.notes) :
                 e.notes[j].startTime <= x /\ x <= e.notes[j].endTime},
        part \in {"left", "right", "body"}}

\* The drag object; a field a mode does not have holds 0 or the empty set.
Drag(mode, anchorTime, activeId, snapshot) ==
    [mode         |-> mode,
     anchorTime   |-> anchorTime,
     previewStart |-> anchorTime,
     previewEnd   |-> anchorTime,
     activeId     |-> activeId,
     snapshot     |-> snapshot]

\* { startTime, endTime } of a note as the drag remembers it.
Snapshot(n) == [id |-> n.id, startTime |-> n.startTime, endTime |-> n.endTime]

\* The selection after a press on the note id, with or without ctrl/meta.
nextSelected(e, id, multi) ==
    IF ~multi THEN <<id>>
    ELSE IF \E k \in 1..Len(e.selectedNoteIds) : e.selectedNoteIds[k] = id
         THEN SelectSeq(e.selectedNoteIds, LAMBDA x : x # id)
         ELSE Append(e.selectedNoteIds, id)

\* onPointerDown with the pointer at time x over the hit target.
onPointerDown(e, x, hit, multi) ==
    LET t == snapTime(x, BeatUnits, e.snapEnabled) IN
    IF e.tool = "pen"
    THEN IF hit.part # "none" THEN e
         ELSE [e EXCEPT !.drag = Some(Drag("pen", t, 0, {}))]
    ELSE IF hit.part = "none"
    THEN IF multi THEN e ELSE [e EXCEPT !.selectedNoteIds = <<>>]
    ELSE LET sel == nextSelected(e, hit.id, multi)
             act == CHOOSE k \in 1..Len(e.notes) : e.notes[k].id = hit.id
         IN  IF hit.part = "body"
             THEN [e EXCEPT !.selectedNoteIds = sel,
                            !.drag = Some(Drag("move", t, 0,
                                {Snapshot(e.notes[k]) :
                                   k \in {j \in 1..Len(e.notes) :
                                            \E i \in 1..Len(sel) :
                                              sel[i] = e.notes[j].id}}))]
             ELSE [e EXCEPT !.selectedNoteIds = sel,
                            !.drag = Some(Drag(
                                IF hit.part = "left" THEN "resize-left"
                                ELSE "resize-right",
                                t, hit.id, {Snapshot(e.notes[act])}))]

\* The note n under a move drag d with the pointer dt from the anchor.
movedNote(n, d, dt, duration) ==
    IF \A base \in d.snapshot : base.id # n.id THEN n
    ELSE LET base == CHOOSE b \in d.snapshot : b.id = n.id
             dur == base.endTime - base.startTime
             newStart == clamp(base.startTime + dt, 0,
                               MathMax(0, duration - dur))
         IN  [n EXCEPT !.startTime = newStart, !.endTime = newStart + dur]

\* The note n under a resize drag d with the pointer dt from the anchor.
resizedNote(n, d, dt, duration) ==
    IF n.id # d.activeId THEN n
    ELSE LET base == CHOOSE b \in d.snapshot : b.id = n.id IN
         IF d.mode = "resize-left"
         THEN [n EXCEPT !.startTime =
                   clamp(base.startTime + dt, 0,
                         base.endTime - MIN_NOTE_SEC)]
         ELSE [n EXCEPT !.endTime =
                   clamp(base.endTime + dt, base.startTime + MIN_NOTE_SEC,
                         duration)]

\* onPointerMove with the pointer at time x, a drag being in progress;
\* updateNotes maps the notes and sorts them by start time.
onPointerMove(e, x) ==
    LET d  == e.drag[1]
        t  == snapTime(x, BeatUnits, e.snapEnabled)
        dt == t - snapTime(d.anchorTime, BeatUnits, e.snapEnabled)
        Moved(n) == movedNote(n, d, dt, e.duration)
        Resized(n) == resizedNote(n, d, dt, e.duration)
    IN  IF d.mode = "pen"
        THEN [e EXCEPT !.drag =
                 Some([d EXCEPT !.previewStart = MathMin(d.anchorTime, t),
                                !.previewEnd = MathMax(d.anchorTime, t)])]
        ELSE IF d.mode = "move"
        THEN [e EXCEPT !.notes = SortBy(NoteStart, SeqMap(Moved, e.notes))]
        ELSE [e EXCEPT !.notes = SortBy(NoteStart, SeqMap(Resized, e.notes))]

\* onPointerUp, a drag being in progress: a pen drag longer than
\* MIN_NOTE_SEC adds its note, under a fresh id, and selects it.
onPointerUp(e) ==
    LET d == e.drag[1]
        startTime == clamp(d.previewStart, 0, e.duration)
        endTime == clamp(d.previewEnd, 0, e.duration)
        seg == [id |-> Len(e.notes) + 1, startTime |-> startTime,
                endTime |-> endTime]
    IN  IF d.mode = "pen" /\ endTime > startTime + MIN_NOTE_SEC
        THEN [e EXCEPT !.notes = SortBy(NoteStart, Append(e.notes, seg)),
                       !.selectedNoteIds = <<seg.id>>,
                       !.drag = Null]
        ELSE [e EXCEPT !.drag = Null]

---------------------------------------------------------------------------
(* Actions *)

\* The pitch estimator delivers the next observation: the first at time
\* 0, each later one a delta after the one before.
AddFrame ==
    /\ Len(frames) < MaxFrames
    /\ calls = <<>>
    /\ \E o \in Observations :
         \E t \in IF Len(frames) = 0 THEN {0}
                  ELSE {frames[Len(frames)].time + d : d \in TimeDeltas} :
           frames' = Append(frames, [time |-> t, f0 |-> o.f0,
                                     confidence |-> o.confidence])
    /\ UNCHANGED <<calls, key, snaps, detected, adapted, uiVars>>

\* What one invocation detectNotesFromPitch(frames, config) is given and
\* returns.
Invocation(config, uuids) ==
    [frames |-> frames, config |-> config,
     notes  |-> detectNotesFromPitch(frames, config, uuids)]

NotesReturned(config) == Len(SurvivingClusters(frames, MergeConfig(config)))

\* The first invocation detectNotesFromPitch(frames, config).
DetectNotes ==
    /\ calls = <<>>
    /\ \E config \in Configs :
         \E uuids \in [1..NotesReturned(config) -> NoteIds] :
           calls' = <<Invocation(config, uuids)>>
    /\ UNCHANGED <<frames, key, snaps, detected, adapted, uiVars>>

\* An invocation detectNotesFromPitch(frames, config) whose config holds an
\* out-of-range value: line 62 merges it over the defaults unexamined and
\* the invocation runs like any other.
DetectOutOfRange ==
    /\ calls = <<>>
    /\ \E config \in OutOfRangeConfigs :
         \E uuids \in [1..NotesReturned(config) -> NoteIds] :
           calls' = <<Invocation(config, uuids)>>
    /\ UNCHANGED <<frames, key, snaps, detected, adapted, uiVars>>

\* Mutant: the notes array hoisted to module scope, so a later invocation
\* returns the earlier invocation's notes followed by its own.
DetectAgain_moduleLevelNotes ==
    /\ calls # <<>>
    /\ Len(calls) < MaxCalls
    /\ \E config \in Configs :
         \E uuids \in [1..NotesReturned(config) -> NoteIds] :
           LET r == Invocation(config, uuids) IN
           calls' = Append(calls,
                      [r EXCEPT !.notes = calls[Len(calls)].notes \o @])
    /\ UNCHANGED <<frames, key, snaps, detected, adapted, uiVars>>

\* A later invocation on the same frames, with any configuration.
DetectAgain ==
    /\ calls # <<>>
    /\ Len(calls) < MaxCalls
    /\ \E config \in Configs :
         \E uuids \in [1..NotesReturned(config) -> NoteIds] :
           calls' = Append(calls, Invocation(config, uuids))
    /\ UNCHANGED <<frames, key, snaps, detected, adapted, uiVars>>

\* One call detectedNotesToNoteSegments(detected, key) or
\* detectedNotesToNoteSegments(detected); the function assigns to nothing
\* but its own locals.
ToNoteSegments ==
    /\ adapted = <<>>
    /\ \E keyGiven \in BOOLEAN :
         adapted' = <<[detected |-> detected, keyGiven |-> keyGiven,
                       segments |-> detectedNotesToNoteSegments(
                                        detected, key, keyGiven)]>>
    /\ UNCHANGED <<frames, calls, key, snaps, detected, uiVars>>

\* One call snapMidiToScale(midi, key) on a fresh pitch.
SnapPitch ==
    /\ snaps = <<>>
    /\ \E midi \in SnapInputs :
         snaps' = <<[midi |-> midi, snapped |-> snapMidiToScale(midi, key)]>>
    /\ UNCHANGED <<frames, calls, key, detected, adapted, uiVars>>

\* snapMidiToScale applied again to the pitch it last returned.
ResnapPitch ==
    /\ snaps # <<>>
    /\ Len(snaps) < MaxSnaps
    /\ LET midi == snaps[Len(snaps)].snapped * MidiScale IN
         snaps' = Append(snaps, [midi |-> midi,
                                 snapped |-> snapMidiToScale(midi, key)])
    /\ UNCHANGED <<frames, calls, key, detected, adapted, uiVars>>

Init ==
    /\ frames = <<>>
    /\ calls = <<>>
    /\ key = makeKey(0, "major", 60)
    /\ snaps = <<>>
    /\ detected = <<>>
    /\ adapted = <<>>
    /\ UiAtLoad

Next == AddFrame \/ DetectNotes

\* Detection: the estimator's frames, then one invocation of the detector.
Spec == Init /\ [][Next]_vars

NextRepeat == AddFrame \/ DetectNotes \/ DetectAgain

\* Repeated detection: the frames, then several invocations on them.
SpecRepeat == Init /\ [][NextRepeat]_vars

NextUnvalidated == AddFrame \/ DetectOutOfRange

\* Detection with an out-of-range configuration.
SpecUnvalidated == Init /\ [][NextUnvalidated]_vars

InitAdapt ==
    /\ frames = <<>>
    /\ calls = <<>>
    /\ key \in AdaptKeys
    /\ snaps = <<>>
    /\ detected \in DetectedLists
    /\ adapted = <<>>
    /\ UiAtLoad

NextAdapt == ToNoteSegments

\* The adapter: a list of detected notes, a key, one conversion.
SpecAdapt == InitAdapt /\ [][NextAdapt]_vars

InitScenario ==
    /\ frames \in ScenarioInputs
    /\ calls = <<>>
    /\ key = makeKey(0, "major", 60)
    /\ snaps = <<>>
    /\ detected = <<>>
    /\ adapted = <<>>
    /\ UiAtLoad

NextScenario == DetectNotes

\* Detection on a recording at a uniform hop: a run of one observation,
\* a pause, the run resumed.
SpecScenario == InitScenario /\ [][NextScenario]_vars

InitSnap ==
    /\ frames = <<>>
    /\ calls = <<>>
    /\ key \in Keys
    /\ snaps = <<>>
    /\ detected = <<>>
    /\ adapted = <<>>
    /\ UiAtLoad

NextSnap == SnapPitch \/ ResnapPitch

\* Scale quantisation: a key, a pitch, and repeated snapping.
SpecSnap == InitSnap /\ [][NextSnap]_vars

---------------------------------------------------------------------------
(* routes/+page.svelte: actions of the audio graph *)

\* A call ensureAudioGraph() up to its first await: it returns at once when
\* both ctx and workletNode are set, and otherwise creates an AudioContext,
\* assigns it to ctx and awaits addModule on it.
EnsureAudioGraphCalled(c) ==
    /\ graph.pc[c] = "idle"
    /\ graph' =
         IF graph.ctx # 0 /\ graph.workletNode # 0
         THEN [graph EXCEPT !.pc[c] = "returned"]
         ELSE [graph EXCEPT !.contexts = @ + 1,
                            !.ctx = graph.contexts + 1,
                            !.own[c] = graph.contexts + 1,
                            !.pc[c] = "addModule"]
    /\ UNCHANGED <<coreVars, playback, page, editor>>

\* addModule resolves on the context the call created; the call goes on to
\* await the fetch of the wasm bytes.
ModuleAdded(c) ==
    /\ graph.pc[c] = "addModule"
    /\ graph' = [graph EXCEPT !.loaded = @ \cup {graph.own[c]},
                              !.pc[c] = "fetch"]
    /\ UNCHANGED <<coreVars, playback, page, editor>>

\* The fetch resolves: new AudioWorkletNode(ctx, 'melody-processor') on
\* whatever context ctx names now.  The constructor throws when the
\* processor is not registered on that context, and the call rejects.
WasmFetched(c) ==
    /\ graph.pc[c] = "fetch"
    /\ graph' =
         IF graph.ctx \in graph.loaded
         THEN [graph EXCEPT !.nodes = Append(@, [context |-> graph.ctx,
                                                 awaited |-> graph.own[c]]),
                            !.workletNode = Len(graph.nodes) + 1,
                            !.pc[c] = "returned"]
         ELSE [graph EXCEPT !.pc[c] = "threw"]
    /\ UNCHANGED <<coreVars, playback, page, editor>>

NextGraph ==
    \E c \in GraphCalls :
        EnsureAudioGraphCalled(c) \/ ModuleAdded(c) \/ WasmFetched(c)

\* The audio graph: calls of ensureAudioGraph whose awaits interleave.
SpecGraph == Init /\ [][NextGraph]_vars

---------------------------------------------------------------------------
(* routes/+page.svelte: actions of playback, the audio graph being set up *)

\* play() is called and reaches its await.
PlayCalled ==
    /\ playback.awaiting.play + playback.awaiting.playRendered < MaxPending
    /\ playback.created + playback.awaiting.play
          + playback.awaiting.playRendered < MaxSources
    /\ playback' = [playback EXCEPT !.awaiting.play = @ + 1]
    /\ UNCHANGED <<coreVars, graph, page, editor>>

\* playRendered() is called and reaches its await.
PlayRenderedCalled ==
    /\ playback.awaiting.play + playback.awaiting.playRendered < MaxPending
    /\ playback.created + playback.awaiting.play
          + playback.awaiting.playRendered < MaxSources
    /\ playback' = [playback EXCEPT !.awaiting.playRendered = @ + 1]
    /\ UNCHANGED <<coreVars, graph, page, editor>>

\* play() after its awaits: the new source feeds the worklet node.
PlayContinues ==
    /\ playback.awaiting.play > 0
    /\ playback' = startSource([playback EXCEPT !.awaiting.play = @ - 1],
                               "workletNode")
    /\ UNCHANGED <<coreVars, graph, page, editor>>

\* playRendered() after its awaits: the new source feeds the destination.
PlayRenderedContinues ==
    /\ playback.awaiting.playRendered > 0
    /\ playback' =
         startSource([playback EXCEPT !.awaiting.playRendered = @ - 1],
                     "destination")
    /\ UNCHANGED <<coreVars, graph, page, editor>>

\* The stop button.
StopClicked ==
    /\ playback' = stop(playback)
    /\ UNCHANGED <<coreVars, graph, page, editor>>

\* A playing source reaches the end of its buffer.
PlaybackEnds(s) ==
    /\ playback.state[s] = "playing"
    /\ playback' = [playback EXCEPT !.state[s] = "ended"]
    /\ UNCHANGED <<coreVars, graph, page, editor>>

\* The 'ended' event of the source s is delivered to its handler.
OnEnded(s) ==
    /\ playback.state[s] = "ended"
    /\ playback' = onended([playback EXCEPT !.state[s] = "done"])
    /\ UNCHANGED <<coreVars, graph, page, editor>>

NextPlayback ==
    \/ PlayCalled
    \/ PlayRenderedCalled
    \/ PlayContinues
    \/ PlayRenderedContinues
    \/ StopClicked
    \/ \E s \in Sources : PlaybackEnds(s) \/ OnEnded(s)

\* Playback: play requests, stops and 'ended' events in any order.
SpecPlayback == Init /\ [][NextPlayback]_vars

---------------------------------------------------------------------------
(* routes/+page.svelte: actions on the loaded file, the notes, the render *)

\* onPickFile (and the development-time load of onMount) after its awaits:
\* the decoded buffer, a fresh empty track, nothing selected or rendered.
FilePicked(buf) ==
    /\ page' = [page EXCEPT !.loadedBuffer = buf,
                            !.renderedBuffer = Null,
                            !.noteTrack = Some(ensureNoteTrackFromBuffer(buf)),
                            !.selectedNoteIds = <<>>,
                            !.lastAutoDetectedNoteCount = Null]
    /\ UNCHANGED <<coreVars, graph, playback, editor>>

\* The preset button.
PresetApplied(i, j) ==
    /\ i < j
    /\ page.loadedBuffer # 0
    /\ LET track == IF page.noteTrack = Null
                    THEN Some(ensureNoteTrackFromBuffer(page.loadedBuffer))
                    ELSE page.noteTrack
           notes == makePresetNotes(i, j)
       IN  page' = [page EXCEPT !.noteTrack = WithNotes(track, notes),
                                !.selectedNoteIds = FirstId(notes),
                                !.lastAutoDetectedNoteCount = Null]
    /\ UNCHANGED <<coreVars, graph, playback, editor>>

\* NoteEditor's onChange(t).
NoteEditorChanged(notes) ==
    /\ page.noteTrack # Null
    /\ page' = [page EXCEPT !.noteTrack = WithNotes(page.noteTrack, notes),
                            !.renderedBuffer = Null]
    /\ UNCHANGED <<coreVars, graph, playback, editor>>

\* SoundEditor's onChangeSelectedNoteFormantShift(noteId, v).
FormantShiftChanged(noteId, v) ==
    /\ page.noteTrack # Null
    /\ LET old == page.noteTrack[1].notes
           new == [k \in 1..Len(old) |->
                     IF old[k].id = noteId
                     THEN [old[k] EXCEPT !.formantShift = v]
                     ELSE old[k]]
       IN  page' = [page EXCEPT !.noteTrack = WithNotes(page.noteTrack, new),
                                !.renderedBuffer = Null]
    /\ UNCHANGED <<coreVars, graph, playback, editor>>

\* SoundEditor's onChangeTrackHarmonics(h) and
\* onChangeSelectedNoteHarmonics(noteId, h).
HarmonicsChanged(h) ==
    /\ page.noteTrack # Null
    /\ page' = [page EXCEPT !.harmonics = h,
                            !.renderedBuffer = Null]
    /\ UNCHANGED <<coreVars, graph, playback, editor>>

\* Mutant: renderedBuffer cleared before the pitch analysis is awaited.
AutoDetectCalled_clearsRenderFirst ==
    /\ page.loadedBuffer # 0
    /\ page.detecting + page.rendering < MaxPending
    /\ page' = [page EXCEPT !.renderedBuffer = Null,
                            !.detecting = @ + 1]
    /\ UNCHANGED <<coreVars, graph, playback, editor>>

\* autoDetectNotes() up to its await of detector.detectPitch.
AutoDetectCalled ==
    /\ page.loadedBuffer # 0
    /\ page.detecting + page.rendering < MaxPending
    /\ page' = [page EXCEPT !.noteTrack =
                                IF @ = Null
                                THEN Some(ensureNoteTrackFromBuffer(
                                              page.loadedBuffer))
                                ELSE @,
                            !.detecting = @ + 1]
    /\ UNCHANGED <<coreVars, graph, playback, editor>>

\* autoDetectNotes() after the await: the notes of the run replace the
\* track's, the first is selected, the count shown, the render dropped.
AutoDetectResolved(nextNotes) ==
    /\ page.detecting > 0
    /\ page' = [page EXCEPT !.noteTrack = WithNotes(page.noteTrack, nextNotes),
                            !.selectedNoteIds = FirstId(nextNotes),
                            !.lastAutoDetectedNoteCount = Some(Len(nextNotes)),
                            !.renderedBuffer = Null,
                            !.detecting = @ - 1]
    /\ UNCHANGED <<coreVars, graph, playback, editor>>

\* renderWithNotes() up to its awaits.
RenderCalled ==
    /\ page.loadedBuffer # 0
    /\ page.noteTrack # Null
    /\ page.detecting + page.rendering < MaxPending
    /\ page' = [page EXCEPT !.rendering = @ + 1]
    /\ UNCHANGED <<coreVars, graph, playback, editor>>

\* renderWithNotes() after await init(): the engine is fed the notes, the
\* harmonics and the loaded buffer as they are now, and its output becomes
\* renderedBuffer.
RenderCompleted ==
    /\ page.rendering > 0
    /\ page' = [page EXCEPT !.renderedBuffer = Some(RenderInputs(page)),
                            !.rendering = @ - 1]
    /\ UNCHANGED <<coreVars, graph, playback, editor>>

NextPage ==
    \/ \E buf \in Buffers : FilePicked(buf)
    \/ \E i, j \in NoteIds : PresetApplied(i, j)
    \/ \E notes \in PageNoteLists : NoteEditorChanged(notes)
    \/ \E noteId \in NoteIds : \E v \in Settings :
          FormantShiftChanged(noteId, v)
    \/ \E h \in Settings : HarmonicsChanged(h)
    \/ AutoDetectCalled
    \/ \E nextNotes \in PageNoteLists : AutoDetectResolved(nextNotes)
    \/ RenderCalled
    \/ RenderCompleted

\* The page: file picks, edits, detection and rendering in any order.
SpecPage == Init /\ [][NextPage]_vars

---------------------------------------------------------------------------
(* components/NoteEditor.svelte: actions of the note editor *)

\* The tool buttons and the keys 1 and 2.
SetTool(tool) ==
    /\ editor.tool # tool
    /\ editor' = [editor EXCEPT !.tool = tool]
    /\ UNCHANGED <<coreVars, graph, playback, page>>

\* The snap checkbox.
SnapToggled ==
    /\ editor' = [editor EXCEPT !.snapEnabled = ~@]
    /\ UNCHANGED <<coreVars, graph, playback, page>>

\* A press in the note area; a pen press is taken only while the track
\* has room for another note.
PointerDown(x, multi) ==
    /\ editor.tool = "pen" => Len(editor.notes) < MaxEditorNotes
    /\ \E hit \in Hits(editor, x) :
          editor' = onPointerDown(editor, x, hit, multi)
    /\ UNCHANGED <<coreVars, graph, playback, page>>

PointerMove(x) ==
    /\ editor.drag # Null
    /\ editor' = onPointerMove(editor, x)
    /\ UNCHANGED <<coreVars, graph, playback, page>>

PointerUp ==
    /\ editor.drag # Null
    /\ editor' = onPointerUp(editor)
    /\ UNCHANGED <<coreVars, graph, playback, page>>

\* The editor is mounted on a track whose notes meet the three conditions.
InitEditor ==
    /\ frames = <<>>
    /\ calls = <<>>
    /\ key = makeKey(0, "major", 60)
    /\ snaps = <<>>
    /\ detected = <<>>
    /\ adapted = <<>>
    /\ graph = GraphAtLoad
    /\ playback = PlaybackIdle
    /\ page = PageAtLoad
    /\ editor \in {EditorOn(EditorDuration, ns) : ns \in EditorTracks}

NextEditor ==
    \/ \E tool \in {"select", "pen"} : SetTool(tool)
    \/ SnapToggled
    \/ \E x \in 0..EditorDuration : \E multi \in BOOLEAN :
          PointerDown(x, multi)
    \/ \E x \in 0..EditorDuration : PointerMove(x)
    \/ PointerUp

\* The note editor: pen, move and resize drags on a well-formed track.
SpecEditor == InitEditor /\ [][NextEditor]_vars

---------------------------------------------------------------------------
(* Properties of detectNotesFromPitch, over the recorded invocations *)

CallIdx == 1..Len(calls)

CallCfg(i) == MergeConfig(calls[i].config)

NoteCount(i) == Len(calls[i].notes)

TimesNonDecreasing(fs) ==
    \A a \in 1..(Len(fs) - 1) : fs[a].time <= fs[a + 1].time

\* The invocations i and j got the same frames and configurations that
\* agree on every knob outside `free`.
SameExcept(i, j, free) ==
    /\ calls[i].frames = calls[j].frames
    /\ \A k \in Knobs \ free : CallCfg(i)[k] = CallCfg(j)[k]

\* C1: for frames whose times are non-decreasing (duplicates allowed) and
\* every configuration, the notes returned have strictly increasing
\* startTime.
C1_StartTimeStrictlyIncreasing ==
    \A i \in CallIdx :
        TimesNonDecreasing(calls[i].frames) =>
            \A a \in 1..(NoteCount(i) - 1) :
                calls[i].notes[a].startTime < calls[i].notes[a + 1].startTime

\* C2 as stated: with the other knobs fixed, raising the confidence
\* threshold never increases the number of notes returned.
C2_ThresholdNeverAddsNotes ==
    \A i, j \in CallIdx :
        (/\ SameExcept(i, j, {"minFrameConfidence"})
         /\ CallCfg(i).minFrameConfidence <= CallCfg(j).minFrameConfidence)
        => NoteCount(j) <= NoteCount(i)

\* C2 as amended: with the other knobs fixed, raising the confidence
\* threshold never increases the number of voiced frames that enter
\* clustering, and the notes returned under the higher threshold are never
\* more than the frames voiced under the lower one.
C2_ThresholdNeverAddsVoicedFrames ==
    \A i, j \in CallIdx :
        (/\ SameExcept(i, j, {"minFrameConfidence"})
         /\ CallCfg(i).minFrameConfidence <= CallCfg(j).minFrameConfidence)
        => /\ Len(VoicedFrames(calls[j].frames, CallCfg(j)))
                <= Len(VoicedFrames(calls[i].frames, CallCfg(i)))
           /\ NoteCount(j) <= Len(VoicedFrames(calls[i].frames, CallCfg(i)))

\* C2 witness: a raised threshold dropped a frame and the invocation
\* returned more notes than under the lower threshold.
C2_Witness ==
    \E i, j \in CallIdx :
        /\ SameExcept(i, j, {"minFrameConfidence"})
        /\ CallCfg(i).minFrameConfidence < CallCfg(j).minFrameConfidence
        /\ Len(VoicedFrames(calls[j].frames, CallCfg(j)))
             < Len(VoicedFrames(calls[i].frames, CallCfg(i)))
        /\ NoteCount(j) > NoteCount(i)

\* C3: with the other knobs fixed, raising minFramesPerNote or minNoteSec
\* never increases the number of notes returned.
C3_FloorsNeverAddNotes ==
    \A i, j \in CallIdx :
        (/\ SameExcept(i, j, {"minFramesPerNote", "minNoteSec"})
         /\ CallCfg(i).minFramesPerNote <= CallCfg(j).minFramesPerNote
         /\ CallCfg(i).minNoteSec <= CallCfg(j).minNoteSec)
        => NoteCount(j) <= NoteCount(i)

\* C3 witness: a raised floor removed a note.
C3_Witness ==
    \E i, j \in CallIdx :
        /\ SameExcept(i, j, {"minFramesPerNote", "minNoteSec"})
        /\ CallCfg(i).minFramesPerNote <= CallCfg(j).minFramesPerNote
        /\ CallCfg(i).minNoteSec <= CallCfg(j).minNoteSec
        /\ CallCfg(i) # CallCfg(j)
        /\ NoteCount(j) < NoteCount(i)

\* The note n was built from the cluster cl, hop being the inferred hop.
BuiltFrom(n, cl, hop) ==
    /\ n.startTime = cl[1].time
    /\ n.endTime = cl[Len(cl)].time + hop
    /\ n.midi * MidiScale - MidiScale \div 2 <= median(SeqMap(FrameMidi, cl))
    /\ median(SeqMap(FrameMidi, cl)) < n.midi * MidiScale + MidiScale \div 2

\* C4: every note returned was built from a cluster of at least
\* minFramesPerNote voiced frames and lasts at least minNoteSec.
C4_NotesPassBothFloors ==
    \A i \in CallIdx :
        LET cfg == CallCfg(i)
            cls == Clusters(calls[i].frames, cfg)
            hop == HopSec(calls[i].frames, cfg)
        IN  \A a \in 1..NoteCount(i) :
              LET n == calls[i].notes[a] IN
              /\ \E c \in 1..Len(cls) :
                    /\ BuiltFrom(n, cls[c], hop)
                    /\ Len(cls[c]) >= cfg.minFramesPerNote
              /\ n.endTime - n.startTime >= cfg.minNoteSec

\* C4 witness: under the default configuration a note was returned for a
\* cluster of exactly minFramesPerNote frames.
C4_Witness ==
    \E i \in CallIdx :
        /\ CallCfg(i) = NOTE_DETECTION_DEFAULTS
        /\ NoteCount(i) = 1
        /\ Len(Clusters(calls[i].frames, CallCfg(i))[1])
             = NOTE_DETECTION_DEFAULTS.minFramesPerNote

\* C5: every note returned has endTime > startTime, for every input and
\* configuration, a minNoteSec of zero included.
C5_EndAfterStart ==
    \A i \in CallIdx :
        \A a \in 1..NoteCount(i) :
            calls[i].notes[a].endTime > calls[i].notes[a].startTime

\* C5 witness: with minNoteSec zero, a note was returned for a cluster
\* whose frames all carry one timestamp, so that only the hop separates
\* its endTime from its startTime.
C5_Witness ==
    \E i \in CallIdx :
        /\ CallCfg(i).minNoteSec = 0
        /\ Len(calls[i].frames) = MaxFrames
        /\ \A a \in 1..Len(calls[i].frames) :
              calls[i].frames[a].time = calls[i].frames[1].time
        /\ NoteCount(i) >= 1

WithoutId(n) ==
    [startTime |-> n.startTime, endTime |-> n.endTime, midi |-> n.midi,
     confidence |-> n.confidence]

---------------------------------------------------------------------------
(* Properties of snapMidiToScale, over the recorded snaps *)

\* p is a scale tone of k: its pitch class relative to the root, as the
\* mathematical residue in 0..11, is one of the scale degrees.
IsScaleTone(p, k) == ((p - k.rootMidi) % 12) \in k.scaleSteps

IsWholeSemitone(midi) == midi % MidiScale = 0

Semitone(midi) == midi \div MidiScale

HasToneWithin6(m, k) == \E p \in (m - 6)..(m + 6) : IsScaleTone(p, k)

\* C6: for every integer pitch and every shipped key (root 0..11, major or
\* minor) the snapped pitch is a scale tone of the key.
C6_ShippedKeysSnapIntoScale ==
    \A a \in 1..Len(snaps) :
        (key \in ShippedKeys /\ IsWholeSemitone(snaps[a].midi))
        => IsScaleTone(snaps[a].snapped, key)

\* C6 witness: under a shipped key, a pitch below the key root that is not
\* a scale tone was snapped.
C6_Witness ==
    /\ key \in ShippedKeys
    /\ Len(snaps) >= 1
    /\ IsWholeSemitone(snaps[1].midi)
    /\ Semitone(snaps[1].midi) < key.rootMidi
    /\ ~IsScaleTone(Semitone(snaps[1].midi), key)

\* C7: for every integer pitch m and key with a scale tone within 6
\* semitones of m, the result is a scale tone nearest to m (at most 6
\* away), and the lower one when the nearest tones below and above are
\* equally distant.
C7_SnapsToNearestPreferringLower ==
    \A a \in 1..Len(snaps) :
        LET m == Semitone(snaps[a].midi)
            r == snaps[a].snapped
        IN  (IsWholeSemitone(snaps[a].midi) /\ HasToneWithin6(m, key))
            => /\ IsScaleTone(r, key)
               /\ Abs(r - m) <= 6
               /\ \A p \in (m - 6)..(m + 6) :
                     IsScaleTone(p, key) =>
                        \/ Abs(p - m) > Abs(r - m)
                        \/ (Abs(p - m) = Abs(r - m) /\ r <= p)

\* C7 witness: the nearest scale tones below and above were equally
\* distant and the pitch was snapped.
C7_Witness ==
    /\ Len(snaps) >= 1
    /\ IsWholeSemitone(snaps[1].midi)
    /\ LET m == Semitone(snaps[1].midi)
           r == snaps[1].snapped
       IN  /\ r < m
           /\ IsScaleTone(m + (m - r), key)

\* C8: for every integer pitch m and key with no scale tone within 6
\* semitones of m, the result is m.
C8_NoToneInReachKeepsPitch ==
    \A a \in 1..Len(snaps) :
        LET m == Semitone(snaps[a].midi) IN
        (IsWholeSemitone(snaps[a].midi) /\ ~HasToneWithin6(m, key))
        => snaps[a].snapped = m

\* C8 witness: a pitch was snapped under a key with no scale tone in reach.
C8_Witness ==
    /\ Len(snaps) >= 1
    /\ IsWholeSemitone(snaps[1].midi)
    /\ ~HasToneWithin6(Semitone(snaps[1].midi), key)

\* C9: snapping fixes every integer pitch that is a scale tone, and
\* snapping a snapped pitch returns it unchanged, for every key.
C9_SnapIdempotent ==
    /\ \A a \in 1..Len(snaps) :
          (IsWholeSemitone(snaps[a].midi)
             /\ IsScaleTone(Semitone(snaps[a].midi), key))
          => snaps[a].snapped = Semitone(snaps[a].midi)
    /\ \A a \in 1..(Len(snaps) - 1) :
          IsWholeSemitone(snaps[a].midi)
          => snaps[a + 1].snapped = snaps[a].snapped

\* C9 witness: a pitch that was moved by the first snap was snapped again.
C9_Witness ==
    /\ Len(snaps) >= 2
    /\ IsWholeSemitone(snaps[1].midi)
    /\ snaps[1].snapped # Semitone(snaps[1].midi)

---------------------------------------------------------------------------
(* Further properties of detectNotesFromPitch *)

\* The observation f is unvoiced under cfg: its f0 is null or not finite,
\* or its confidence is below the threshold.
Unvoiced(f, cfg) ==
    \/ f.f0.kind = "null"
    \/ f.f0.kind = "nan"
    \/ f.confidence < cfg.minFrameConfidence

NoFrameVoiced(i) ==
    \A a \in 1..Len(calls[i].frames) : Unvoiced(calls[i].frames[a], CallCfg(i))

\* Every cluster of invocation i has too few frames or, with the hop
\* added to its last frame time, too short a duration.
EveryClusterFails(i) ==
    LET cfg == CallCfg(i)
        cls == Clusters(calls[i].frames, cfg)
        hop == HopSec(calls[i].frames, cfg)
    IN  \A c \in 1..Len(cls) :
          \/ Len(cls[c]) < cfg.minFramesPerNote
          \/ cls[c][Len(cls[c])].time + hop - cls[c][1].time < cfg.minNoteSec

\* C11: an invocation returns the empty list when its input is empty, when
\* no frame is voiced (every f0 null or non-finite, or every confidence
\* below the threshold), and when every cluster fails the frame-count or
\* the duration floor.
C11_EmptyResultCases ==
    \A i \in CallIdx :
        (\/ calls[i].frames = <<>>
         \/ NoFrameVoiced(i)
         \/ EveryClusterFails(i))
        => calls[i].notes = <<>>

\* C11 witness: an invocation whose frames are all voiced and form a
\* cluster with enough frames that is too short returned the empty list.
C11_Witness ==
    \E i \in CallIdx :
        LET cls == Clusters(calls[i].frames, CallCfg(i)) IN
        /\ Len(calls[i].frames) = MaxFrames
        /\ \A a \in 1..Len(calls[i].frames) :
              ~Unvoiced(calls[i].frames[a], CallCfg(i))
        /\ \E c \in 1..Len(cls) : Len(cls[c]) >= CallCfg(i).minFramesPerNote
        /\ EveryClusterFails(i)
        /\ calls[i].notes = <<>>

ConfigInRange(config) == \A k \in DOMAIN config : config[k] >= 0

\* C12: a configuration holding an out-of-range value (a negative
\* maxGapSec, maxJumpSemitones, maxStdDevSemitones, minNoteSec,
\* minFramesPerNote or confidence threshold) is rejected before any frame
\* is processed: no invocation given such a configuration returns a note
\* list, empty or not.
C12_OutOfRangeConfigRejected ==
    \A i \in CallIdx : ConfigInRange(calls[i].config)

\* The semitone nearest to a frequency the model draws.
SemitoneOfHz(hz) ==
    CASE hz = 262 -> 60
      [] hz = 277 -> 61
      [] hz = 294 -> 62

\* The frames a..b of invocation i are voiced, of one frequency, and each
\* follows the one before after the hop h.
VoicedRun(i, a, b, h) ==
    LET fs == calls[i].frames IN
    /\ \A c \in a..b : /\ ~Unvoiced(fs[c], CallCfg(i))
                       /\ fs[c].f0.hz = fs[a].f0.hz
    /\ \A c \in a..(b - 1) : fs[c + 1].time - fs[c].time = h

\* The frames a..b (n of them) alone meet the premises of Scenario A: at
\* least 3 frames at a hop h within maxGapSec, n*h reaching minNoteSec.
ScenarioA(i, a, b, h) ==
    LET n == b - a + 1 IN
    /\ n >= 3
    /\ h > 0
    /\ h <= CallCfg(i).maxGapSec
    /\ n * h >= CallCfg(i).minNoteSec
    /\ VoicedRun(i, a, b, h)

\* C15: N >= 3 consecutive frames at a uniform hop h <= maxGapSec, all of
\* one frequency with confidence at or above the threshold, with
\* N*h >= minNoteSec, give exactly one note: startTime the first frame
\* time, endTime that time plus N*h, pitch the frequency's rounded
\* semitone.
C15_UniformRunGivesOneNote ==
    \A i \in CallIdx :
        LET fs == calls[i].frames
            N  == Len(fs)
        IN  \A h \in TimeDeltas :
              ScenarioA(i, 1, N, h) =>
                /\ NoteCount(i) = 1
                /\ calls[i].notes[1].startTime = fs[1].time
                /\ calls[i].notes[1].endTime = fs[1].time + N * h
                /\ calls[i].notes[1].midi = SemitoneOfHz(fs[1].f0.hz)

\* C15 witness: under the default configuration a run of more than 3
\* frames 0.01 s apart, long enough to reach minNoteSec, gave a note.
C15_Witness ==
    \E i \in CallIdx :
        /\ CallCfg(i) = NOTE_DETECTION_DEFAULTS
        /\ Len(calls[i].frames) > 3
        /\ ScenarioA(i, 1, Len(calls[i].frames), TimeScale \div 100)
        /\ NoteCount(i) = 1

\* Invocation i was given a run of nA frames, a pause of g unvoiced
\* frames longer than maxGapSec, and the run resumed, all at the hop h,
\* each side alone meeting the premises of Scenario A.
ScenarioB(i, nA, g, h) ==
    LET fs == calls[i].frames
        N  == Len(fs)
    IN  /\ nA >= 1
        /\ g >= 1
        /\ nA + g < N
        /\ fs[nA + g + 1].time - fs[nA].time > CallCfg(i).maxGapSec
        /\ fs[nA + g + 1].time - fs[nA + g].time = h
        /\ fs[nA + g + 1].f0.hz = fs[1].f0.hz
        /\ \A c \in (nA + 1)..(nA + g) :
              /\ Unvoiced(fs[c], CallCfg(i))
              /\ fs[c].time - fs[c - 1].time = h
        /\ ScenarioA(i, 1, nA, h)
        /\ ScenarioA(i, nA + g + 1, N, h)

Kept(i) == SelectSeq(calls[i].frames, LAMBDA f : ~Unvoiced(f, CallCfg(i)))

\* C17: under the default configuration, exactly 3 voiced frames give no
\* note when they are 0.01 s apart, and exactly one note when they share
\* one pitch and their hop, within maxGapSec, makes 3 hops reach
\* minNoteSec.
C17_ThreeFrameBoundary ==
    \A i \in CallIdx :
        LET v == Kept(i) IN
        (CallCfg(i) = NOTE_DETECTION_DEFAULTS /\ Len(v) = 3) =>
          /\ (/\ v[2].time - v[1].time = TimeScale \div 100
              /\ v[3].time - v[2].time = TimeScale \div 100)
             => NoteCount(i) = 0
          /\ \A h \in TimeDeltas :
               (/\ h > 0
                /\ v[2].time - v[1].time = h
                /\ v[3].time - v[2].time = h
                /\ v[2].f0.hz = v[1].f0.hz
                /\ v[3].f0.hz = v[1].f0.hz
                /\ h <= NOTE_DETECTION_DEFAULTS.maxGapSec
                /\ 3 * h >= NOTE_DETECTION_DEFAULTS.minNoteSec)
               => NoteCount(i) = 1

\* C17 witness: under the default configuration three voiced frames of
\* one pitch, 0.03 s apart, gave exactly one note.
C17_Witness ==
    \E i \in CallIdx :
        LET v == Kept(i) IN
        /\ CallCfg(i) = NOTE_DETECTION_DEFAULTS
        /\ Len(v) = 3
        /\ v[2].time - v[1].time = v[3].time - v[2].time
        /\ 3 * (v[2].time - v[1].time) >= NOTE_DETECTION_DEFAULTS.minNoteSec
        /\ v[2].f0.hz = v[1].f0.hz
        /\ v[3].f0.hz = v[1].f0.hz
        /\ NoteCount(i) = 1

\* The consecutive timestamp deltas of the voiced frames of invocation i.
VoicedDeltas(i) ==
    LET v == Kept(i) IN [a \in 1..(Len(v) - 1) |-> v[a + 1].time - v[a].time]

\* The k-th smallest entry of the non-empty list s.
KthSmallest(s, k) ==
    CHOOSE x \in {s[a] : a \in 1..Len(s)} :
        /\ Cardinality({a \in 1..Len(s) : s[a] < x}) < k
        /\ Cardinality({a \in 1..Len(s) : s[a] <= x}) >= k

\* The median of the non-empty list s: its middle entry, or the mean of
\* its two middle entries.
MedianOf(s) ==
    IF Len(s) % 2 = 1 THEN KthSmallest(s, (Len(s) + 1) \div 2)
    ELSE (KthSmallest(s, Len(s) \div 2)
            + KthSmallest(s, Len(s) \div 2 + 1)) \div 2

\* Every note of invocation i ends hop after the last frame of a cluster
\* that starts where the note starts.
NotesEndHopAfterLastFrame(i, hop) ==
    LET cls == Clusters(calls[i].frames, CallCfg(i)) IN
    \A a \in 1..NoteCount(i) :
        \E c \in 1..Len(cls) :
            /\ calls[i].notes[a].startTime = cls[c][1].time
            /\ calls[i].notes[a].endTime = cls[c][Len(cls[c])].time + hop

\* C18 as stated: the hop added to each note's last frame time is the
\* median of the consecutive timestamp deltas across all voiced frames,
\* and the default 0.01 s whenever fewer than 3 distinct deltas exist.
C18_HopIsMedianOfDeltas ==
    \A i \in CallIdx :
        LET ds == VoicedDeltas(i) IN
        NotesEndHopAfterLastFrame(i,
            IF Cardinality({ds[a] : a \in 1..Len(ds)}) < 3
              THEN TimeScale \div 100
              ELSE MedianOf(ds))

\* C18 as amended: the hop added to each note's last frame time is the
\* median of the positive consecutive timestamp deltas across all voiced
\* frames, and the default 0.01 s whenever there are fewer than 3 voiced
\* frames or no positive delta.
C18_HopIsMedianOfPositiveDeltas ==
    \A i \in CallIdx :
        LET ds  == VoicedDeltas(i)
            pos == SelectSeq(ds, LAMBDA d : d > 0)
        IN  NotesEndHopAfterLastFrame(i,
                IF Len(Kept(i)) < 3 \/ Len(pos) = 0
                  THEN TimeScale \div 100
                  ELSE MedianOf(pos))

\* C18 witness: three voiced frames, two of them sharing a timestamp, so
\* that one delta is zero and one positive and not the default hop, and a
\* note was returned.
C18_Witness ==
    \E i \in CallIdx :
        LET ds == VoicedDeltas(i) IN
        /\ Len(ds) = 2
        /\ \E a \in 1..2 : ds[a] = 0
        /\ \E a \in 1..2 : ds[a] > TimeScale \div 100
        /\ NoteCount(i) >= 1

\* C19: the voiced frames passed to clustering are exactly the input
\* observations whose frequency is present and finite and whose
\* confidence is at or above the threshold, in time order; every other
\* observation is dropped and contributes to no cluster or note.
C19_VoicedFramesExact ==
    \A i \in CallIdx :
        LET cfg    == CallCfg(i)
            kept   == SelectSeq(calls[i].frames,
                        LAMBDA f : /\ f.f0.kind = "finite"
                                   /\ f.confidence >= cfg.minFrameConfidence)
            voiced == VoicedFrames(calls[i].frames, cfg)
            cls    == Clusters(calls[i].frames, cfg)
        IN  /\ Len(voiced) = Len(kept)
            /\ \A a \in 1..Len(kept) :
                  /\ voiced[a].time = kept[a].time
                  /\ voiced[a].midi = hzToMidiFloat(kept[a].f0.hz)
                  /\ voiced[a].confidence = kept[a].confidence
            /\ \A a \in 1..(Len(voiced) - 1) :
                  voiced[a].time <= voiced[a + 1].time
            /\ Sum([c \in 1..Len(cls) |-> Len(cls[c])]) = Len(kept)
            /\ \A a \in 1..NoteCount(i) :
                  \E b \in 1..Len(kept) :
                      calls[i].notes[a].startTime = kept[b].time

\* C19 witness: an invocation was given a frame with a non-finite f0, a
\* frame below the threshold and a frame exactly at the threshold, and
\* kept the last alone.
C19_Witness ==
    \E i \in CallIdx :
        LET fs == calls[i].frames IN
        /\ \E a \in 1..Len(fs) : fs[a].f0.kind = "nan"
        /\ \E a \in 1..Len(fs) :
              /\ fs[a].f0.kind = "finite"
              /\ fs[a].confidence < CallCfg(i).minFrameConfidence
        /\ \E a \in 1..Len(fs) :
              /\ fs[a].f0.kind = "finite"
              /\ fs[a].confidence = CallCfg(i).minFrameConfidence
        /\ Len(VoicedFrames(fs, CallCfg(i))) = 1
        /\ NoteCount(i) = 1

\* C20: in every cluster produced, each two adjacent frames are at most
\* maxGapSec apart in time and at most maxJumpSemitones apart in pitch.
C20_AdjacentFramesWithinGapAndJump ==
    \A i \in CallIdx :
        LET cfg == CallCfg(i)
            cls == Clusters(calls[i].frames, cfg)
        IN  \A c \in 1..Len(cls) :
              \A a \in 1..(Len(cls[c]) - 1) :
                /\ cls[c][a + 1].time - cls[c][a].time <= cfg.maxGapSec
                /\ Abs(cls[c][a + 1].midi - cls[c][a].midi)
                     <= cfg.maxJumpSemitones

\* C20 witness: a cluster holds two adjacent frames that differ in time
\* and in pitch.
C20_Witness ==
    \E i \in CallIdx :
        LET cls == Clusters(calls[i].frames, CallCfg(i)) IN
        /\ \E c \in 1..Len(cls) :
              \E a \in 1..(Len(cls[c]) - 1) :
                /\ cls[c][a + 1].time > cls[c][a].time
                /\ cls[c][a + 1].midi # cls[c][a].midi

---------------------------------------------------------------------------
(* Properties of detectedNotesToNoteSegments, over the recorded conversions *)

\* The segment sg was made from the note n.
SegmentOf(sg, n) ==
    /\ sg.id = n.id
    /\ sg.startTime = n.startTime
    /\ sg.endTime = n.endTime
    /\ sg.baseSemitone = n.midi

\* C13: a conversion called with a key attaches to every segment it
\* produces a snapped pitch equal to snapMidiToScale(note.midi, key), the
\* segment's baseSemitone staying the detected pitch, and leaves the
\* input DetectedNote objects unmodified.
C13_SnappedPitchAttached ==
    \A a \in 1..Len(adapted) :
        adapted[a].keyGiven =>
            /\ detected = adapted[a].detected
            /\ \A b \in 1..Len(adapted[a].segments) :
                  LET sg == adapted[a].segments[b] IN
                  \E c \in 1..Len(adapted[a].detected) :
                     LET n == adapted[a].detected[c] IN
                     /\ SegmentOf(sg, n)
                     /\ "snappedSemitone" \in DOMAIN sg
                     /\ sg.snappedSemitone
                          = snapMidiToScale(n.midi * MidiScale, key)

TripleOf(x) == <<x.id, x.startTime, x.endTime>>

Occurrences(s, t) == Cardinality({b \in 1..Len(s) : TripleOf(s[b]) = t})

IsNeutral(sg) ==
    /\ sg.pitchOffset = 0
    /\ sg.pitchCenterOffset = 0
    /\ sg.pitchModAmount = 1
    /\ sg.pitchDriftAmount = 1
    /\ sg.timeStretchStart = 1
    /\ sg.timeStretchEnd = 1
    /\ sg.formantShift = 0
    /\ sg.enabled = TRUE

\* C14: a conversion yields exactly one segment for each detected note
\* with endTime > startTime and none for the others, keeping that note's
\* id, startTime and endTime, ordered by non-decreasing startTime, every
\* performance parameter at its neutral value.
C14_OneNeutralSegmentPerNote ==
    \A a \in 1..Len(adapted) :
        LET given == adapted[a].detected
            out   == adapted[a].segments
            kept  == SelectSeq(given, LAMBDA n : n.endTime > n.startTime)
        IN  /\ Len(out) = Len(kept)
            /\ \A b \in 1..Len(given) :
                  Occurrences(out, TripleOf(given[b]))
                    = Occurrences(kept, TripleOf(given[b]))
            /\ \A b \in 1..(Len(out) - 1) :
                  out[b].startTime <= out[b + 1].startTime
            /\ \A b \in 1..Len(out) : IsNeutral(out[b])

\* C14 witness: a list holding a note without duration, followed by two
\* notes with duration in descending startTime order, was converted.
C14_Witness ==
    \E a \in 1..Len(adapted) :
        LET given == adapted[a].detected IN
        /\ Len(given) >= 3
        /\ given[1].endTime <= given[1].startTime
        /\ given[2].endTime > given[2].startTime
        /\ given[3].endTime > given[3].startTime
        /\ given[2].startTime > given[3].startTime
        /\ Len(adapted[a].segments) = 2

---------------------------------------------------------------------------
(* Properties of the clustering pass *)

\* The sample standard deviation (n-1 divisor, 0 for one value) of the
\* pitches xs is at most bound >= 0: with n values the variance is the sum
\* of the squared differences of all pairs divided by n*(n-1).
SpreadWithin(xs, bound) ==
    LET n == Len(xs)
        pairs == Sum([a \in 1..n |->
                   Sum([b \in 1..n |->
                      IF a < b THEN (xs[a] - xs[b]) * (xs[a] - xs[b])
                      ELSE 0])])
    IN  IF n <= 1 THEN 0 <= bound
        ELSE pairs <= bound * bound * n * (n - 1)

\* The voiced frames of invocation i as {time, midi}, in input order.
KeptPitched(i) ==
    LET v == Kept(i)
    IN  [a \in 1..Len(v) |->
            [time |-> v[a].time, midi |-> SemitoneOfHz(v[a].f0.hz) * MidiScale]]

\* The positions, in the voiced-frame sequence, at which the clusters of
\* invocation i start.
ClusterStarts(i) ==
    LET cls == Clusters(calls[i].frames, CallCfg(i))
    IN  {1 + Sum([d \in 1..(c - 1) |-> Len(cls[d])]) : c \in 1..Len(cls)}

\* The frames of the cluster holding position k - 1, up to that position.
OpenClusterBefore(i, k) ==
    LET s == CHOOSE x \in ClusterStarts(i) :
                 /\ x <= k - 1
                 /\ \A y \in ClusterStarts(i) : y <= k - 1 => y <= x
    IN  SubSeq(KeptPitched(i), s, k - 1)

\* C21: every cluster has a sample standard deviation of its pitches
\* (n-1 divisor, 0 for a single frame) of at most maxStdDevSemitones; a
\* frame whose tentative append would exceed the bound is not a member of
\* the cluster it was tested against but the first frame of the next one;
\* a single-frame cluster is never rejected by this rule.
C21_ClusterSpreadBounded ==
    \A i \in CallIdx :
        LET cfg == CallCfg(i)
            cls == Clusters(calls[i].frames, cfg)
            v   == KeptPitched(i)
        IN  /\ \A c \in 1..Len(cls) :
                  SpreadWithin(SeqMap(FrameMidi, cls[c]),
                               cfg.maxStdDevSemitones)
            /\ \A k \in 2..Len(v) :
                  ~SpreadWithin(
                      SeqMap(FrameMidi, Append(OpenClusterBefore(i, k), v[k])),
                      cfg.maxStdDevSemitones)
                  => k \in ClusterStarts(i)
            /\ \A k \in 1..Len(v) :
                  SpreadWithin(<<v[k].midi>>, cfg.maxStdDevSemitones)

\* C21 witness: a frame within maxGapSec and maxJumpSemitones of the frame
\* before it started a new cluster, its pitch being too far from those of
\* the open cluster.
C21_Witness ==
    \E i \in CallIdx :
        LET cfg == CallCfg(i)
            v   == KeptPitched(i)
        IN  \E k \in 2..Len(v) :
              /\ k \in ClusterStarts(i)
              /\ v[k].time - v[k - 1].time <= cfg.maxGapSec
              /\ Abs(v[k].midi - v[k - 1].midi) <= cfg.maxJumpSemitones
              /\ ~SpreadWithin(
                    SeqMap(FrameMidi, Append(OpenClusterBefore(i, k), v[k])),
                    cfg.maxStdDevSemitones)

RECURSIVE Concat(_)
Concat(ss) == IF Len(ss) = 0 THEN <<>> ELSE ss[1] \o Concat(Tail(ss))

\* C22: the clusters are non-empty and, concatenated in order, equal the
\* time-ordered voiced-frame sequence: every voiced frame is in exactly
\* one cluster, none is dropped, duplicated or reordered, and a closed
\* cluster is never appended to again (each cluster is a run of
\* consecutive voiced frames, the runs following one another).
C22_ClustersPartitionVoicedFrames ==
    \A i \in CallIdx :
        LET cls  == Clusters(calls[i].frames, CallCfg(i))
            v    == Kept(i)
            all  == Concat(cls)
        IN  /\ \A c \in 1..Len(cls) : Len(cls[c]) >= 1
            /\ Len(all) = Len(v)
            /\ \A a \in 1..Len(v) :
                  /\ all[a].time = v[a].time
                  /\ all[a].midi = SemitoneOfHz(v[a].f0.hz) * MidiScale
                  /\ all[a].confidence = v[a].confidence
            /\ \A a \in 1..(Len(all) - 1) : all[a].time <= all[a + 1].time

\* C22 witness: the voiced frames fell into several clusters of different
\* pitch, one of them of several frames.
C22_Witness ==
    \E i \in CallIdx :
        LET cls == Clusters(calls[i].frames, CallCfg(i)) IN
        /\ Len(cls) >= 2
        /\ \E c \in 1..Len(cls) : Len(cls[c]) >= 2
        /\ cls[1][1].midi # cls[2][1].midi

\* C23: clusters are maximal. For every two consecutive clusters A then
\* B, the first frame f of B is more than maxGapSec after A's last frame,
\* or more than maxJumpSemitones from its pitch, or the sample standard
\* deviation of A's pitches together with f's exceeds maxStdDevSemitones.
C23_BoundariesOnlyWhereRuleViolated ==
    \A i \in CallIdx :
        LET cfg == CallCfg(i)
            cls == Clusters(calls[i].frames, cfg)
        IN  \A c \in 1..(Len(cls) - 1) :
              LET A    == cls[c]
                  last == A[Len(A)]
                  f    == cls[c + 1][1]
              IN  \/ f.time - last.time > cfg.maxGapSec
                  \/ Abs(f.midi - last.midi) > cfg.maxJumpSemitones
                  \/ ~SpreadWithin(SeqMap(FrameMidi, Append(A, f)),
                                   cfg.maxStdDevSemitones)

\* C23 witness: a cluster was closed by a frame of the same pitch that
\* came more than maxGapSec after its last frame.
C23_Witness ==
    \E i \in CallIdx :
        LET cls == Clusters(calls[i].frames, CallCfg(i)) IN
        /\ Len(cls) >= 2
        /\ cls[2][1].midi = cls[1][Len(cls[1])].midi
        /\ cls[2][1].time - cls[1][Len(cls[1])].time > CallCfg(i).maxGapSec

\* The hop of invocation i: the median of the positive deltas between
\* consecutive voiced frames, or 0.01 s.
HopOf(i) ==
    LET pos == SelectSeq(VoicedDeltas(i), LAMBDA d : d > 0)
    IN  IF Len(Kept(i)) < 3 \/ Len(pos) = 0 THEN TimeScale \div 100
        ELSE MedianOf(pos)

\* q is the mean of the confidences of the cluster cl, clamped to [0, 1].
IsClampedMeanConfidence(q, cl) ==
    LET total == Sum(SeqMap(FrameConfidence, cl))
        n     == Len(cl)
    IN  IF total < 0 THEN q.num = 0
        ELSE IF total > ConfScale * n THEN q.num = ConfScale * q.den
        ELSE q.num * n = total * q.den

\* m is the whole semitone nearest to x (in 1/MidiScale semitone), the
\* upper one when two are equally near.
IsRounded(m, x) ==
    /\ 2 * m * MidiScale - MidiScale <= 2 * x
    /\ 2 * x < 2 * m * MidiScale + MidiScale

\* C24: exactly one note is emitted for each cluster that passes the
\* frame-count and the duration floor, in cluster order, with startTime
\* the cluster's first frame time, endTime its last frame time plus the
\* hop, pitch the rounded median of its pitches and confidence the mean
\* of its confidences clamped to [0, 1].
C24_OneNotePerSurvivingCluster ==
    \A i \in CallIdx :
        LET cfg  == CallCfg(i)
            hop  == HopOf(i)
            pass == SelectSeq(Clusters(calls[i].frames, cfg),
                        LAMBDA cl :
                           /\ Len(cl) >= cfg.minFramesPerNote
                           /\ cl[Len(cl)].time + hop - cl[1].time
                                >= cfg.minNoteSec)
        IN  /\ NoteCount(i) = Len(pass)
            /\ \A a \in 1..Len(pass) :
                  LET n  == calls[i].notes[a]
                      cl == pass[a]
                  IN  /\ n.startTime = cl[1].time
                      /\ n.endTime = cl[Len(cl)].time + hop
                      /\ IsRounded(n.midi, MedianOf(SeqMap(FrameMidi, cl)))
                      /\ IsClampedMeanConfidence(n.confidence, cl)

\* C24 witness: a note was returned for a cluster whose frames differ in
\* pitch and in confidence.
C24_Witness ==
    \E i \in CallIdx :
        LET cls == Clusters(calls[i].frames, CallCfg(i)) IN
        /\ Len(cls) >= 1
        /\ NoteCount(i) = 1
        /\ \E c \in 1..Len(cls) :
              /\ calls[i].notes[1].startTime = cls[c][1].time
              /\ \E a \in 1..(Len(cls[c]) - 1) :
                    /\ cls[c][a].midi # cls[c][a + 1].midi
                    /\ cls[c][a].confidence # cls[c][a + 1].confidence

\* C26: for frames with strictly increasing times, consecutive notes do
\* not overlap: each note's endTime is at most the next note's startTime.
C26_NotesDoNotOverlap ==
    \A i \in CallIdx :
        (\A a \in 1..(Len(calls[i].frames) - 1) :
            calls[i].frames[a].time < calls[i].frames[a + 1].time)
        => \A a \in 1..(NoteCount(i) - 1) :
              calls[i].notes[a].endTime <= calls[i].notes[a + 1].startTime

---------------------------------------------------------------------------
(* Properties of the page's audio graph and playback *)

Playing == {s \in Sources : playback.state[s] = "playing"}

\* C27: at most one audio source is playing, and a source that is playing
\* (started, and neither over nor stopped nor replaced) is the one that
\* sourceNode names and is still connected; no 'ended' callback of an
\* earlier source disconnects or clears it.
C27_PlayingSourceIsHeldAndConnected ==
    /\ Cardinality(Playing) <= 1
    /\ \A s \in Playing :
          /\ playback.sourceNode = s
          /\ playback.connected[s] # "none"

\* C28: at most one AudioContext and at most one worklet node are ever
\* created, and each worklet node is created on the context on which its
\* call awaited the loading of the worklet module.
C28_OneContextOneNodeOnLoadedContext ==
    /\ graph.contexts <= 1
    /\ Len(graph.nodes) <= 1
    /\ \A i \in 1..Len(graph.nodes) :
          graph.nodes[i].context = graph.nodes[i].awaited

---------------------------------------------------------------------------
(* Properties of the page's note track and render *)

\* The four values autoDetectNotes assigns.
DetectionOutputs(p) ==
    <<p.noteTrack, p.selectedNoteIds, p.lastAutoDetectedNoteCount,
      p.renderedBuffer>>

\* C25: autoDetectNotes exposes no partial result.  The step that takes a
\* call to its await writes none of noteTrack.notes, selectedNoteIds,
\* lastAutoDetectedNoteCount and renderedBuffer; the step that resumes it
\* sets all four from the notes of one detection run; so between the steps
\* of other handlers the four are either as before or updated together.
C25_AutoDetectWritesAllOrNothing ==
    [][/\ page'.detecting > page.detecting
           => DetectionOutputs(page') = DetectionOutputs(page)
       /\ page'.detecting < page.detecting
           => \E run \in PageNoteLists :
                /\ page'.noteTrack # Null
                /\ page'.noteTrack[1].notes = run
                /\ page'.noteTrack[1].buffer = page.noteTrack[1].buffer
                /\ page'.selectedNoteIds = FirstId(run)
                /\ page'.lastAutoDetectedNoteCount = Some(Len(run))
                /\ page'.renderedBuffer = Null]_vars

\* A detection run has completed (two notes, the first selected, the
\* count shown, no render) while another call is still at its await.
C25_Witness ==
    /\ page.detecting > 0
    /\ page.lastAutoDetectedNoteCount = Some(2)
    /\ page.noteTrack # Null
    /\ Len(page.noteTrack[1].notes) = 2
    /\ page.selectedNoteIds = FirstId(page.noteTrack[1].notes)
    /\ page.renderedBuffer = Null

\* C29: a render that exists was rendered from the current loaded buffer,
\* note list and harmonic settings.
C29_RenderIsOfCurrentInputs ==
    page.renderedBuffer # Null
        => page.renderedBuffer[1] = RenderInputs(page)

---------------------------------------------------------------------------
(* Properties of the note editor *)

WellFormed(n, duration) ==
    /\ 0 <= n.startTime
    /\ n.endTime <= duration
    /\ n.endTime - n.startTime >= MIN_NOTE_SEC

PenDragOf(e) == e.drag # Null /\ e.drag[1].mode = "pen"

\* C30: after any sequence of pen, move and resize drags on a track whose
\* notes all satisfy 0 <= startTime, endTime <= duration and
\* endTime - startTime >= MIN_NOTE_SEC, every note still satisfies the
\* three conditions; and the release of a pen drag that spans no more than
\* MIN_NOTE_SEC leaves the notes as they were.
C30_DragsKeepNotesWellFormed ==
    /\ [](\A k \in 1..Len(editor.notes) :
            WellFormed(editor.notes[k], editor.duration))
    /\ [][(/\ PenDragOf(editor)
           /\ editor'.drag = Null
           /\ editor.drag[1].previewEnd - editor.drag[1].previewStart
                <= MIN_NOTE_SEC)
          => editor'.notes = editor.notes]_vars

\* A resize drag of a note's left edge is held at MIN_NOTE_SEC before the
\* note's end, the pointer having been dragged further.
C30_Witness ==
    /\ editor.drag # Null
    /\ editor.drag[1].mode = "resize-left"
    /\ \E k \in 1..Len(editor.notes) :
          /\ editor.notes[k].id = editor.drag[1].activeId
          /\ editor.notes[k].startTime
               = editor.notes[k].endTime - MIN_NOTE_SEC
          /\ \A base \in editor.drag[1].snapshot :
                base.startTime < editor.notes[k].startTime

=============================================================================
